---- MODULE Spec2Model ----
(***************************************************************************)
(* Model of pycloudstack/vmm.py: the libvirt backend VMMLibvirt driving    *)
(* one domain.  One caller runs the methods sequentially; every libvirt    *)
(* call, every `arp -a` sample and every guest-agent round-trip is one     *)
(* step of the method that makes it.  The hypervisor, the host neighbour   *)
(* table and the guest agent are the environment.                          *)
(***************************************************************************)
EXTENDS Integers, Sequences, FiniteSets, TLC

VARIABLES
    pc,             \* position of the caller inside the running method
    op,             \* the method being executed ("none" when idle)
    frame,          \* the method that called is_running()
    outcome,        \* "ok" or the exception that left the method
    result,         \* the value the method returned
    reqs,           \* libvirt calls issued by the running method, in order
    faulted,        \* a transient libvirt / filesystem error hit this call
    entry,          \* hypervisor and backend state when the method was called
    prev,           \* the call that returned normally just before, nothing in between
    defined,        \* the domain has a persistent definition
    domState,       \* the power state libvirt reports for the domain
    xmlFile,        \* the dumped Virt XML file exists
    hasMac,         \* the live XML description holds a <mac address=...>
    self_ip,        \* VMMLibvirt._ip
    force_refresh,  \* argument of the running get_ip()
    vm_mac_address, \* local of get_ip()
    retry,          \* local of get_ip()
    samples,        \* `arp -a` runs made by the running get_ip()
    sleeps,         \* time.sleep(1) calls made by the running get_ip()
    hits,           \* samples of this get_ip() with a line carrying the VM MAC and an IP
    matched,        \* IPs of the lines of the latest sample that carry the VM MAC
    path,           \* argument of the running qemu_agent_file_write / _read
    content_arg,    \* argument `content` of qemu_agent_file_write
    ret,            \* local `ret`: the latest response assigned to it
    content,        \* local `content` of qemu_agent_file_read: the read response
    filedescriptor, \* local `filedescriptor`
    rt,             \* agent round-trips of the running method: command and reply
    nextHandle,     \* guest agent: the next file handle it hands out
    openFds,        \* guest agent: the open handles, with path and mode
    guestFiles,     \* guest: content of each file, or NoFile
    vminst,         \* the guest specification handed to the constructor
    base_freq,      \* DUT.get_cpu_base_freq() of the host
    xml,            \* VMMLibvirt._xml: the fields _prepare_domain_xml sets
    virt_conn,      \* VMMLibvirt._virt_conn: unset, an open or a closed connection
    closeCalls,     \* close() requests made on the libvirt connection
    teardowns,      \* __del__ invocations so far
    nvramFile,      \* the OVMF_VARS.<vmid>.fd copy exists
    stop_at_begining \* argument of the running create()

None == "None"

(***************************************************************************)
(* libvirt power states (virDomainState) and the lifecycle enum of vmparam *)
(***************************************************************************)
VIR_DOMAIN_NOSTATE     == "VIR_DOMAIN_NOSTATE"
VIR_DOMAIN_RUNNING     == "VIR_DOMAIN_RUNNING"
VIR_DOMAIN_BLOCKED     == "VIR_DOMAIN_BLOCKED"
VIR_DOMAIN_PAUSED      == "VIR_DOMAIN_PAUSED"
VIR_DOMAIN_SHUTDOWN    == "VIR_DOMAIN_SHUTDOWN"
VIR_DOMAIN_SHUTOFF     == "VIR_DOMAIN_SHUTOFF"
VIR_DOMAIN_CRASHED     == "VIR_DOMAIN_CRASHED"
VIR_DOMAIN_PMSUSPENDED == "VIR_DOMAIN_PMSUSPENDED"

DomStates ==
    { VIR_DOMAIN_NOSTATE, VIR_DOMAIN_RUNNING, VIR_DOMAIN_BLOCKED, VIR_DOMAIN_PAUSED,
      VIR_DOMAIN_SHUTDOWN, VIR_DOMAIN_SHUTOFF, VIR_DOMAIN_CRASHED,
      VIR_DOMAIN_PMSUSPENDED }

VM_STATE_RUNNING              == "VM_STATE_RUNNING"
VM_STATE_PAUSE                == "VM_STATE_PAUSE"
VM_STATE_SHUTDOWN_IN_PROGRESS == "VM_STATE_SHUTDOWN_IN_PROGRESS"
VM_STATE_SHUTDOWN             == "VM_STATE_SHUTDOWN"

ARP_INTERVAL == 120

(***************************************************************************)
(* The host neighbour table as `arp -a` prints it: a sequence of lines,    *)
(* each holding an IPv4 address or none and a MAC address or none.         *)
(***************************************************************************)
MaxArpLines == 2

VmMac    == "52:54:00:00:00:01"
OtherMac == "52:54:00:00:00:02"

IpA == "192.0.2.10"
IpB == "192.0.2.11"

ArpLines ==
    { [ip |-> IpA, mac |-> VmMac], [ip |-> IpB, mac |-> VmMac],
      [ip |-> IpA, mac |-> OtherMac],
      [ip |-> IpA, mac |-> None],      \* an incomplete entry: no MAC on the line
      [ip |-> None, mac |-> VmMac] }   \* a line without an IPv4 address

ArpOutputs == UNION { [1..n -> ArpLines] : n \in 0..MaxArpLines }

(***************************************************************************)
(* The hypervisor.  A domain exists while it has a persistent definition   *)
(* or is active; each call answers [err, defined, domState].               *)
(***************************************************************************)
Exists(d, s) == d \/ s # VIR_DOMAIN_SHUTOFF

HvOk(d, s)  == [err |-> FALSE, defined |-> d, domState |-> s]
HvErr(d, s) == [err |-> TRUE, defined |-> d, domState |-> s]

\* virConnect.lookupByUUIDString: libvirtError when no such domain.
lookupByUUIDString(d, s) == IF Exists(d, s) THEN HvOk(d, s) ELSE HvErr(d, s)

\* virConnect.defineXML: (re)defines the persistent configuration.
defineXML(d, s) == HvOk(TRUE, s)

\* virDomain.create: powers on an inactive domain; error when already active.
dom_create(d, s) ==
    IF Exists(d, s) /\ s = VIR_DOMAIN_SHUTOFF
        THEN HvOk(d, VIR_DOMAIN_RUNNING) ELSE HvErr(d, s)

\* virDomain.destroy: hard power-off; error when the domain is not active.
dom_destroy(d, s) ==
    IF s # VIR_DOMAIN_SHUTOFF THEN HvOk(d, VIR_DOMAIN_SHUTOFF) ELSE HvErr(d, s)

\* virDomain.undefineFlags: drops the persistent definition.
dom_undefineFlags(d, s) == IF d THEN HvOk(FALSE, s) ELSE HvErr(d, s)

\* virDomain.suspend: error when inactive or pm-suspended, else pauses.
dom_suspend(d, s) ==
    IF s \in {VIR_DOMAIN_SHUTOFF, VIR_DOMAIN_PMSUSPENDED}
        THEN HvErr(d, s) ELSE HvOk(d, VIR_DOMAIN_PAUSED)

\* virDomain.resume: error when inactive or pm-suspended; restarts the CPUs
\* of a paused or crashed domain; leaves any other active domain as it is.
dom_resume(d, s) ==
    IF s \in {VIR_DOMAIN_SHUTOFF, VIR_DOMAIN_PMSUSPENDED} THEN HvErr(d, s)
    ELSE IF s \in {VIR_DOMAIN_PAUSED, VIR_DOMAIN_CRASHED}
        THEN HvOk(d, VIR_DOMAIN_RUNNING)
    ELSE HvOk(d, s)

\* virDomain.reboot / virDomain.shutdown: requests to a running guest; the
\* power state changes later, on the guest's own time.
dom_reboot(d, s) == IF s = VIR_DOMAIN_RUNNING THEN HvOk(d, s) ELSE HvErr(d, s)
dom_shutdown(d, s) == IF s = VIR_DOMAIN_RUNNING THEN HvOk(d, s) ELSE HvErr(d, s)

\* virDomain.state / virDomain.XMLDesc: read-only, on a domain that exists.
dom_state(d, s) == IF Exists(d, s) THEN HvOk(d, s) ELSE HvErr(d, s)
dom_XMLDesc(d, s) == IF Exists(d, s) THEN HvOk(d, s) ELSE HvErr(d, s)

(***************************************************************************)
(* Decisions of the backend's methods                                      *)
(***************************************************************************)
is_running_result(state) == state = VIR_DOMAIN_RUNNING

is_shutoff_result(state) == state = VIR_DOMAIN_SHUTOFF

\* start() without its else branch: always powers on
start_branch_always_create(shutoff) == "start_get_domain"

\* start(): power on when shut off, else resume()
start_branch(shutoff) == IF shutoff THEN "start_get_domain" ELSE "resume_get_domain"

\* suspend() without its guard
suspend_guard_dropped(running) == TRUE

\* suspend(): `if self.is_running(): dom.suspend()`
suspend_guard(running) == running

\* resume() without its guard
resume_guard_dropped(running) == TRUE

\* resume(): `if not self.is_running(): dom.resume()`
resume_guard(running) == ~running

\* destroy() with a handler that catches nothing
destroy_except_nothing(exc) == FALSE

\* destroy(): `except libvirt.libvirtError`
destroy_except(exc) == exc = "libvirtError"

\* destroy(): `except (OSError, IOError)`
remove_except(exc) == exc \in {"OSError", "IOError"}

\* state() with the VIR_DOMAIN_SHUTDOWN comparison left out
state_result_no_shutdown(state) ==
    IF state = VIR_DOMAIN_RUNNING THEN VM_STATE_RUNNING
    ELSE IF state = VIR_DOMAIN_PAUSED THEN VM_STATE_PAUSE
    ELSE IF state = VIR_DOMAIN_SHUTOFF THEN VM_STATE_SHUTDOWN
    ELSE None

\* state(): the chain of comparisons, `return None` at the end
state_result(state) ==
    IF state = VIR_DOMAIN_RUNNING THEN VM_STATE_RUNNING
    ELSE IF state = VIR_DOMAIN_PAUSED THEN VM_STATE_PAUSE
    ELSE IF state = VIR_DOMAIN_SHUTDOWN THEN VM_STATE_SHUTDOWN_IN_PROGRESS
    ELSE IF state = VIR_DOMAIN_SHUTOFF THEN VM_STATE_SHUTDOWN
    ELSE None

(***************************************************************************)
(* The guest agent behind libvirt_qemu.qemuAgentCommand: files of the      *)
(* guest, the handles the agent has open, and its reply to a command.      *)
(***************************************************************************)
MaxHandle == 3

Paths    == { "/tmp/a" }
NoFile   == "NoFile"
Empty    == ""

\* base64 buffers: two short ones, and one whose decoded bytes are one more
\* than a single guest-file-read hands back; BigHead encodes its first
\* QGA_READ_COUNT_DEFAULT bytes
Big      == "QUFB...(4097 bytes)"
BigHead  == "QUFB...(4096 bytes)"
Contents == { "aGVsbG8=", "d29ybGQ=", Big }

\* guest-file-read without a `count` argument reads at most this many bytes
QGA_READ_COUNT_DEFAULT == 4096

\* number of bytes a base64 buffer decodes to
DecodedLen(c) ==
    IF c = Empty THEN 0
    ELSE IF c = Big THEN 4097
    ELSE IF c = BigHead THEN 4096
    ELSE 5

\* the buf-b64 of one guest-file-read from the start of a file that holds
\* the bytes of `c`
ReadChunk(c) == IF DecodedLen(c) > QGA_READ_COUNT_DEFAULT THEN BigHead ELSE c

NoReply == [kind |-> "none", value |-> None]

\* what the caller can get back from one qemuAgentCommand: a reply with a
\* `return` member, a reply without one, or a libvirtError
ReplyKinds == { "return", "error", "raised" }

OpenCmd(p, mode) == [execute |-> "guest-file-open", path |-> p, mode |-> mode]
WriteCmd(h, buf) == [execute |-> "guest-file-write", handle |-> h, buf |-> buf]
ReadCmd(h)       == [execute |-> "guest-file-read", handle |-> h]
CloseCmd(h)      == [execute |-> "guest-file-close", handle |-> h]

FdOf(h, fds) == CHOOSE fd \in fds : fd.handle = h

IsOpen(h, fds) == \E fd \in fds : fd.handle = h

\* the guest can carry the command out
GuestCan(cmd, fds, files) ==
    IF cmd.execute = "guest-file-open"
        THEN cmd.mode = "w+" \/ files[cmd.path] # NoFile
    ELSE IF cmd.execute = "guest-file-write"
        THEN IsOpen(cmd.handle, fds) /\ FdOf(cmd.handle, fds).mode = "w+"
    ELSE IsOpen(cmd.handle, fds)

\* the guest carries the command out: [value, next, fds, files]
GuestExec(cmd, next, fds, files) ==
    IF cmd.execute = "guest-file-open"
        THEN [value |-> next, next |-> next + 1,
              fds |-> fds \cup {[handle |-> next, path |-> cmd.path, mode |-> cmd.mode]},
              files |-> IF cmd.mode = "w+"
                          THEN [files EXCEPT ![cmd.path] = Empty] ELSE files]
    ELSE IF cmd.execute = "guest-file-write"
        THEN [value |-> "count", next |-> next, fds |-> fds,
              files |-> [files EXCEPT ![FdOf(cmd.handle, fds).path] = cmd.buf]]
    ELSE IF cmd.execute = "guest-file-read"
        THEN [value |-> ReadChunk(files[FdOf(cmd.handle, fds).path]), next |-> next,
              fds |-> fds, files |-> files]
    ELSE [value |-> "closed", next |-> next,
          fds |-> fds \ {FdOf(cmd.handle, fds)}, files |-> files]

\* _qemu_agent_command(cmd): look the domain up, send the command, hand the
\* reply back.  `k` is what the agent channel does with this command.  The
\* answer tells whether the command went out (sent), whether libvirtError
\* was raised, the reply string, and the guest afterwards.
qemu_agent_command(cmd, k, d, s, next, fds, files) ==
    IF ~Exists(d, s)
        THEN [sent |-> FALSE, raised |-> TRUE, reply |-> NoReply,
              next |-> next, fds |-> fds, files |-> files]
    ELSE IF s # VIR_DOMAIN_RUNNING \/ k = "raised"
        THEN [sent |-> TRUE, raised |-> TRUE, reply |-> NoReply,
              next |-> next, fds |-> fds, files |-> files]
    ELSE IF k = "return" /\ GuestCan(cmd, fds, files)
        THEN LET g == GuestExec(cmd, next, fds, files)
             IN  [sent |-> TRUE, raised |-> FALSE,
                  reply |-> [kind |-> "return", value |-> g.value],
                  next |-> g.next, fds |-> g.fds, files |-> g.files]
    ELSE [sent |-> TRUE, raised |-> FALSE,
          reply |-> [kind |-> "error", value |-> None],
          next |-> next, fds |-> fds, files |-> files]

\* `'return' in ret`
has_return(reply) == reply.kind = "return"

\* the close step dropped from qemu_agent_file_write
file_write_after_write_return == "ret"

\* qemu_agent_file_write: what follows the write step
file_write_after_write == "file_write_close"

\* qemu_agent_file_read: what follows the read step
file_read_after_read == "file_read_close"

(***************************************************************************)
(* get_ip(): the pure parts                                                *)
(***************************************************************************)
\* get_ip() that never answers from the cache
get_ip_cached_never(force, ip) == FALSE

\* `(not force_refresh) and (self._ip is not None)`: answer from the cache
get_ip_cached(force, ip) == (~force) /\ ip # None

\* re.search(r"<mac address='([a-zA-Z0-9:]+)'", dom.XMLDesc(0)): a match
\* object when the description holds a MAC address, else None (is_none)
re_search_mac(has) ==
    IF has THEN [is_none |-> FALSE, mac |-> VmMac] ELSE [is_none |-> TRUE, mac |-> None]

\* `.groups()` on the result of re.search: None has no such attribute
groups(m) ==
    IF m.is_none THEN [raised |-> "AttributeError", value |-> None]
                ELSE [raised |-> None, value |-> m.mac]

\* the for loop over runner.stdout: the last line that has an IPv4 address
\* and a MAC address equal to the VM's sets the IP; `cur` is self._ip before
RECURSIVE for_line_in_stdout(_, _, _)
for_line_in_stdout(stdout, mac, cur) ==
    IF stdout = << >> THEN cur
    ELSE LET line == Head(stdout)
             nxt == IF line.ip = None \/ line.mac = None THEN cur
                    ELSE IF line.mac = mac THEN line.ip
                    ELSE cur
         IN  for_line_in_stdout(Tail(stdout), mac, nxt)

\* The IPs a sample pairs with `mac`: those of its lines that hold both an
\* IPv4 address and that MAC address.
MatchedIps(stdout, mac) ==
    { stdout[i].ip : i \in { j \in DOMAIN stdout :
                                stdout[j].ip # None /\ stdout[j].mac = mac } }

\* the while loop without its break
get_ip_break_never(ip) == FALSE

\* `if self._ip is not None: break`
get_ip_break(ip) == ip # None

(***************************************************************************)
(* The guest specification and the domain XML built from it                *)
(***************************************************************************)
VM_TYPE_LEGACY == "legacy"
VM_TYPE_EFI    == "efi"
VM_TYPE_TD     == "td"
VM_TYPE_SGX    == "sgx"
VmTypes == { VM_TYPE_LEGACY, VM_TYPE_EFI, VM_TYPE_TD, VM_TYPE_SGX }

BOOT_TYPE_DIRECT == "direct"
BOOT_TYPE_GRUB   == "grub"
BootTypes == { BOOT_TYPE_DIRECT, BOOT_TYPE_GRUB }

BIOS_BINARY_LEGACY == "bios.bin"
BIOS_OVMF_CODE     == "OVMF_CODE.fd"

\* os.path.join(copy_dir, "OVMF_VARS." + xmlobj.uuid + ".fd")
ovmf_vars == "OVMF_VARS.vmid.fd"

\* vminst.kernel and vminst.cmdline; the command line is an object that
\* str() renders to its text.
Kernels  == { "/boot/vmlinuz-a", "/boot/vmlinuz-b" }
Cmdlines == { [text |-> "root=/dev/vda1 console=hvc0"] }
str(c) == c.text

Guests == [vmtype : VmTypes, boot : BootTypes, kernel : Kernels, cmdline : Cmdlines]

\* host base frequencies around the threshold of the TD branch
TscThreshold == 1000000
BaseFreqs == { TscThreshold - 1, TscThreshold, TscThreshold + 1 }

\* the arguments of set_cpu_params, one feature per element
TscPin  == "tsc-freq=1000000000"
BaseCpu == << "host", "-kvm-steal-time", "pmu=off" >>
SgxCpu  ==
    << "host", "host-phys-bits", "+sgx", "+sgx-debug", "+sgx-exinfo", "+sgx-kss",
       "+sgx-mode64", "+sgx-provisionkey", "+sgx-tokenkey", "+sgx1", "+sgx2", "+sgxlc" >>

\* the comparison taken one too far
tsc_pin_needed_at_threshold(freq) == freq <= TscThreshold

\* `if DUT.get_cpu_base_freq() < 1000000:`
tsc_pin_needed(freq) == freq < TscThreshold

cpu_params(vmtype, freq) ==
    IF vmtype = VM_TYPE_SGX THEN SgxCpu
    ELSE IF vmtype = VM_TYPE_TD /\ tsc_pin_needed(freq) THEN Append(BaseCpu, TscPin)
    ELSE BaseCpu

loader(vmtype) ==
    IF vmtype \in { VM_TYPE_EFI, VM_TYPE_TD } THEN BIOS_OVMF_CODE ELSE BIOS_BINARY_LEGACY

\* xmlobj.nvram is assigned for the EFI and TD flavors only
nvram(vmtype) ==
    IF vmtype \in { VM_TYPE_EFI, VM_TYPE_TD } THEN ovmf_vars ELSE None

\* the bootloader branch clearing the kernel only
boot_fields_cmdline_kept(v) ==
    IF v.boot = BOOT_TYPE_GRUB
        THEN [kernel |-> None, cmdline |-> str(v.cmdline)]
        ELSE [kernel |-> v.kernel, cmdline |-> str(v.cmdline)]

\* `if self.vminst.boot == BOOT_TYPE_GRUB: ... else: ...`
boot_fields(v) ==
    IF v.boot = BOOT_TYPE_GRUB
        THEN [kernel |-> None, cmdline |-> None]
        ELSE [kernel |-> v.kernel, cmdline |-> str(v.cmdline)]

\* self._xml before the constructor has assigned it
NoXml ==
    [loader |-> None, nvram |-> None, cpu_params |-> << >>,
     kernel |-> None, cmdline |-> None]

prepare_domain_xml(v, freq) ==
    [loader     |-> loader(v.vmtype),
     nvram      |-> nvram(v.vmtype),
     cpu_params |-> cpu_params(v.vmtype, freq),
     kernel     |-> boot_fields(v).kernel,
     cmdline    |-> boot_fields(v).cmdline]

\* undefineFlags(VIR_DOMAIN_UNDEFINE_NVRAM) removes the NVRAM file the domain
\* XML names, and no other file.
undefine_nvram(x, file) == IF x.nvram # None THEN FALSE ELSE file

\* virConnect.close(): error on a connection that is already closed
conn_close(c) == [err |-> c # "open", conn |-> "closed"]

\* the guest the lifecycle, address and agent specifications run with
DefaultGuest ==
    [vmtype |-> VM_TYPE_LEGACY, boot |-> BOOT_TYPE_DIRECT,
     kernel |-> "/boot/vmlinuz-a", cmdline |-> [text |-> "root=/dev/vda1 console=hvc0"]]

MaxTeardown == 2

ctorVars == << vminst, base_freq, xml, virt_conn, closeCalls, teardowns >>

vars ==
    << pc, op, frame, outcome, result, reqs, faulted, entry, prev,
       defined, domState, xmlFile, hasMac, ctorVars, nvramFile, stop_at_begining, self_ip,
       force_refresh, vm_mac_address, retry, samples, sleeps, hits, matched,
       path, content_arg, ret, content, filedescriptor, rt,
       nextHandle, openFds, guestFiles >>

hvVars    == << defined, domState >>
getipVars == << force_refresh, vm_mac_address, retry, samples, sleeps, hits, matched >>

agentLocals == << path, content_arg, ret, content, filedescriptor, rt >>
guestVars   == << nextHandle, openFds, guestFiles >>
agentVars   == << agentLocals, guestVars >>

NoPrev  == [op |-> "none", domState |-> None, path |-> None, content |-> None]
NoEntry ==
    [registered |-> FALSE, domState |-> None, xmlFile |-> FALSE, ip |-> None,
     nextHandle |-> 0]

Init ==
    /\ pc = "idle" /\ op = "none" /\ frame = "none"
    /\ outcome = "none" /\ result = None
    /\ reqs = << >> /\ faulted = FALSE
    /\ entry = NoEntry /\ prev = NoPrev
    /\ defined = FALSE /\ domState = VIR_DOMAIN_SHUTOFF
    /\ xmlFile = FALSE
    /\ hasMac \in BOOLEAN
    /\ self_ip = None
    /\ force_refresh = FALSE /\ vm_mac_address = None
    /\ retry = 0 /\ samples = 0 /\ sleeps = 0 /\ hits = 0 /\ matched = {}
    /\ path = None /\ content_arg = None
    /\ ret = NoReply /\ content = NoReply /\ filedescriptor = None /\ rt = << >>
    /\ nextHandle = 0 /\ openFds = {}
    /\ guestFiles = [p \in Paths |-> NoFile]
    /\ vminst = DefaultGuest /\ base_freq = TscThreshold
    /\ xml = prepare_domain_xml(DefaultGuest, TscThreshold)
    /\ virt_conn = "open" /\ closeCalls = 0 /\ teardowns = 0
    /\ nvramFile = TRUE
    /\ stop_at_begining = TRUE

(***************************************************************************)
(* Entering and leaving a method                                           *)
(***************************************************************************)
Call(name, first) ==
    /\ pc = "idle"
    /\ pc' = first
    /\ op' = name
    /\ outcome' = "running"
    /\ result' = None
    /\ reqs' = << >>
    /\ faulted' = FALSE
    /\ entry' = [registered |-> Exists(defined, domState), domState |-> domState,
                 xmlFile |-> xmlFile, ip |-> self_ip, nextHandle |-> nextHandle]

Raise(exc) == pc' = "ret" /\ outcome' = exc

ReturnOk == pc' = "ret" /\ outcome' = "ok"

\* One libvirt call: `r` is the hypervisor's answer, `f` a transient failure
\* of the call; on success the caller goes on at `next` ("ret": the method
\* returns normally).  An error propagates to the caller of the method.
HvCall(name, r, f, next) ==
    /\ reqs' = Append(reqs, name)
    /\ faulted' = (faulted \/ f)
    /\ IF f \/ r.err
          THEN Raise("libvirtError") /\ UNCHANGED hvVars
          ELSE /\ pc' = next
               /\ outcome' = IF next = "ret" THEN "ok" ELSE outcome
               /\ defined' = r.defined /\ domState' = r.domState

\* The method has returned (or raised) to its caller.
Return ==
    /\ pc = "ret"
    /\ pc' = "idle"
    /\ prev' = IF outcome = "ok"
                THEN [op |-> op, domState |-> entry.domState,
                      path |-> path, content |-> content_arg]
                ELSE NoPrev
    /\ op' = "none" /\ frame' = "none" /\ outcome' = "none" /\ result' = None
    /\ reqs' = << >> /\ faulted' = FALSE /\ entry' = NoEntry
    /\ force_refresh' = FALSE /\ vm_mac_address' = None
    /\ retry' = 0 /\ samples' = 0 /\ sleeps' = 0 /\ hits' = 0 /\ matched' = {}
    /\ path' = None /\ content_arg' = None
    /\ ret' = NoReply /\ content' = NoReply /\ filedescriptor' = None /\ rt' = << >>
    /\ stop_at_begining' = TRUE
    /\ UNCHANGED << defined, domState, xmlFile, hasMac, ctorVars, nvramFile, self_ip, guestVars >>


callRest == << frame, prev, defined, domState, xmlFile, hasMac, ctorVars, nvramFile, stop_at_begining, self_ip >>
hvRest   == << op, entry, prev, xmlFile, hasMac, ctorVars, nvramFile, stop_at_begining, self_ip >>

(***************************************************************************)
(* create()                                                                *)
(***************************************************************************)
CreateCall ==
    /\ Call("create", "create_dump")
    /\ \E b \in BOOLEAN : stop_at_begining' = b
    /\ UNCHANGED << frame, prev, defined, domState, xmlFile, hasMac, ctorVars,
                    nvramFile, self_ip, getipVars, agentVars >>

\* self._xml.dump()
CreateDump ==
    /\ pc = "create_dump"
    /\ xmlFile' = TRUE
    /\ pc' = "create_defineXML"
    /\ UNCHANGED << op, frame, outcome, result, reqs, faulted, entry, prev,
                    defined, domState, hasMac, ctorVars, nvramFile, stop_at_begining, self_ip, getipVars, agentVars >>

\* domain = self._virt_conn.defineXML(self._xml.tostring())
CreateDefineXML ==
    /\ pc = "create_defineXML"
    /\ \E f \in BOOLEAN :
          HvCall("defineXML", defineXML(defined, domState), f, "create_domain_create")
    /\ UNCHANGED << hvRest, frame, result, getipVars, agentVars >>

\* domain.create()
CreateDomainCreate ==
    /\ pc = "create_domain_create"
    /\ \E f \in BOOLEAN : HvCall("create", dom_create(defined, domState), f, "ret")
    /\ UNCHANGED << hvRest, frame, result, getipVars, agentVars >>

(***************************************************************************)
(* destroy()                                                               *)
(***************************************************************************)
DestroyCall ==
    /\ Call("destroy", "destroy_get_domain")
    /\ UNCHANGED << callRest, getipVars, agentVars >>

\* One libvirt call inside the try block of destroy(): an error the except
\* clause catches is logged and the method goes on at the XML clean-up.
DestroyTry(name, r, f, next) ==
    /\ reqs' = Append(reqs, name)
    /\ faulted' = (faulted \/ f)
    /\ IF f \/ r.err
          THEN /\ IF destroy_except("libvirtError")
                     THEN pc' = "destroy_exists" /\ outcome' = outcome
                     ELSE Raise("libvirtError")
               /\ UNCHANGED hvVars
          ELSE /\ pc' = next /\ outcome' = outcome
               /\ defined' = r.defined /\ domState' = r.domState

DestroyGetDomain ==
    /\ pc = "destroy_get_domain"
    /\ \E f \in BOOLEAN :
          DestroyTry("lookupByUUIDString", lookupByUUIDString(defined, domState), f,
                     "destroy_destroy")
    /\ UNCHANGED << hvRest, frame, result, getipVars, agentVars >>

DestroyDestroy ==
    /\ pc = "destroy_destroy"
    /\ \E f \in BOOLEAN :
          DestroyTry("destroy", dom_destroy(defined, domState), f, "destroy_undefineFlags")
    /\ UNCHANGED << hvRest, frame, result, getipVars, agentVars >>

DestroyUndefineFlags ==
    /\ pc = "destroy_undefineFlags"
    /\ \E f \in BOOLEAN :
          /\ DestroyTry("undefineFlags", dom_undefineFlags(defined, domState), f,
                        "destroy_exists")
          /\ nvramFile' = IF f \/ dom_undefineFlags(defined, domState).err
                              THEN nvramFile
                              ELSE undefine_nvram(xml, nvramFile)
    /\ UNCHANGED << op, entry, prev, xmlFile, hasMac, ctorVars, stop_at_begining,
                    self_ip, frame, result, getipVars, agentVars >>

\* if os.path.exists(self._xml.filepath):
DestroyExists ==
    /\ pc = "destroy_exists"
    /\ IF xmlFile THEN pc' = "destroy_remove" /\ outcome' = outcome
                  ELSE ReturnOk
    /\ UNCHANGED << op, frame, result, reqs, faulted, entry, prev,
                    defined, domState, xmlFile, hasMac, ctorVars, nvramFile, stop_at_begining, self_ip, getipVars, agentVars >>

\* os.remove(self._xml.filepath), inside try / except (OSError, IOError)
DestroyRemove ==
    /\ pc = "destroy_remove"
    /\ \E f \in BOOLEAN :
          /\ faulted' = (faulted \/ f)
          /\ IF f \/ ~xmlFile
                THEN /\ IF remove_except("OSError") THEN ReturnOk ELSE Raise("OSError")
                     /\ UNCHANGED xmlFile
                ELSE xmlFile' = FALSE /\ ReturnOk
    /\ UNCHANGED << op, frame, result, reqs, entry, prev,
                    defined, domState, hasMac, ctorVars, nvramFile, stop_at_begining, self_ip, getipVars, agentVars >>

(***************************************************************************)
(* start(), suspend(), resume(), is_running(), is_shutoff()                *)
(***************************************************************************)
StartCall ==
    /\ Call("start", "is_shutoff_get_domain")
    /\ UNCHANGED << callRest, getipVars, agentVars >>

IsShutoffGetDomain ==
    /\ pc = "is_shutoff_get_domain"
    /\ \E f \in BOOLEAN :
          HvCall("lookupByUUIDString", lookupByUUIDString(defined, domState), f,
                 "is_shutoff_state")
    /\ UNCHANGED << hvRest, frame, result, getipVars, agentVars >>

\* state, _ = dom.state(); start() branches on state == VIR_DOMAIN_SHUTOFF
IsShutoffState ==
    /\ pc = "is_shutoff_state"
    /\ \E f \in BOOLEAN :
          HvCall("state", dom_state(defined, domState), f,
                 start_branch(is_shutoff_result(domState)))
    /\ UNCHANGED << hvRest, frame, result, getipVars, agentVars >>

StartGetDomain ==
    /\ pc = "start_get_domain"
    /\ \E f \in BOOLEAN :
          HvCall("lookupByUUIDString", lookupByUUIDString(defined, domState), f,
                 "start_create")
    /\ UNCHANGED << hvRest, frame, result, getipVars, agentVars >>

StartCreate ==
    /\ pc = "start_create"
    /\ \E f \in BOOLEAN : HvCall("create", dom_create(defined, domState), f, "ret")
    /\ UNCHANGED << hvRest, frame, result, getipVars, agentVars >>

SuspendCall ==
    /\ Call("suspend", "suspend_get_domain")
    /\ UNCHANGED << callRest, getipVars, agentVars >>

SuspendGetDomain ==
    /\ pc = "suspend_get_domain"
    /\ \E f \in BOOLEAN :
          HvCall("lookupByUUIDString", lookupByUUIDString(defined, domState), f,
                 "is_running_get_domain")
    /\ frame' = "suspend"
    /\ UNCHANGED << hvRest, result, getipVars, agentVars >>

ResumeCall ==
    /\ Call("resume", "resume_get_domain")
    /\ UNCHANGED << callRest, getipVars, agentVars >>

\* entered by resume() itself and by the else branch of start()
ResumeGetDomain ==
    /\ pc = "resume_get_domain"
    /\ \E f \in BOOLEAN :
          HvCall("lookupByUUIDString", lookupByUUIDString(defined, domState), f,
                 "is_running_get_domain")
    /\ frame' = "resume"
    /\ UNCHANGED << hvRest, result, getipVars, agentVars >>

IsRunningGetDomain ==
    /\ pc = "is_running_get_domain"
    /\ \E f \in BOOLEAN :
          HvCall("lookupByUUIDString", lookupByUUIDString(defined, domState), f,
                 "is_running_state")
    /\ UNCHANGED << hvRest, frame, result, getipVars, agentVars >>

\* state, _ = dom.state(); the caller's guard decides what follows
IsRunningState ==
    /\ pc = "is_running_state"
    /\ \E f \in BOOLEAN :
          LET running == is_running_result(domState)
              next == IF frame = "suspend"
                        THEN IF suspend_guard(running) THEN "suspend_suspend" ELSE "ret"
                        ELSE IF resume_guard(running) THEN "resume_resume" ELSE "ret"
          IN  HvCall("state", dom_state(defined, domState), f, next)
    /\ UNCHANGED << hvRest, frame, result, getipVars, agentVars >>

SuspendSuspend ==
    /\ pc = "suspend_suspend"
    /\ \E f \in BOOLEAN : HvCall("suspend", dom_suspend(defined, domState), f, "ret")
    /\ UNCHANGED << hvRest, frame, result, getipVars, agentVars >>

ResumeResume ==
    /\ pc = "resume_resume"
    /\ \E f \in BOOLEAN : HvCall("resume", dom_resume(defined, domState), f, "ret")
    /\ UNCHANGED << hvRest, frame, result, getipVars, agentVars >>

(***************************************************************************)
(* reboot(), shutdown(), state()                                           *)
(***************************************************************************)
RebootCall ==
    /\ Call("reboot", "reboot_get_domain")
    /\ UNCHANGED << callRest, getipVars, agentVars >>

RebootGetDomain ==
    /\ pc = "reboot_get_domain"
    /\ \E f \in BOOLEAN :
          HvCall("lookupByUUIDString", lookupByUUIDString(defined, domState), f,
                 "reboot_reboot")
    /\ UNCHANGED << hvRest, frame, result, getipVars, agentVars >>

RebootReboot ==
    /\ pc = "reboot_reboot"
    /\ \E f \in BOOLEAN : HvCall("reboot", dom_reboot(defined, domState), f, "ret")
    /\ UNCHANGED << hvRest, frame, result, getipVars, agentVars >>

ShutdownCall ==
    /\ Call("shutdown", "shutdown_get_domain")
    /\ UNCHANGED << callRest, getipVars, agentVars >>

ShutdownGetDomain ==
    /\ pc = "shutdown_get_domain"
    /\ \E f \in BOOLEAN :
          HvCall("lookupByUUIDString", lookupByUUIDString(defined, domState), f,
                 "shutdown_shutdown")
    /\ UNCHANGED << hvRest, frame, result, getipVars, agentVars >>

ShutdownShutdown ==
    /\ pc = "shutdown_shutdown"
    /\ \E f \in BOOLEAN : HvCall("shutdown", dom_shutdown(defined, domState), f, "ret")
    /\ UNCHANGED << hvRest, frame, result, getipVars, agentVars >>

StateCall ==
    /\ Call("state", "state_get_domain")
    /\ UNCHANGED << callRest, getipVars, agentVars >>

StateGetDomain ==
    /\ pc = "state_get_domain"
    /\ \E f \in BOOLEAN :
          HvCall("lookupByUUIDString", lookupByUUIDString(defined, domState), f,
                 "state_state")
    /\ UNCHANGED << hvRest, frame, result, getipVars, agentVars >>

StateState ==
    /\ pc = "state_state"
    /\ \E f \in BOOLEAN :
          /\ HvCall("state", dom_state(defined, domState), f, "ret")
          /\ result' = IF f \/ dom_state(defined, domState).err
                          THEN result ELSE state_result(domState)
    /\ UNCHANGED << hvRest, frame, getipVars, agentVars >>

(***************************************************************************)
(* The environment between two calls of the backend: the guest, the host   *)
(* and other libvirt clients change the power state and the files.         *)
(***************************************************************************)
EnvDomState ==
    /\ pc = "idle"
    /\ Exists(defined, domState)
    /\ \E s \in DomStates \ {domState} : domState' = s
    /\ prev' = NoPrev
    /\ UNCHANGED << pc, op, frame, outcome, result, reqs, faulted, entry,
                    defined, xmlFile, hasMac, ctorVars, nvramFile, stop_at_begining, self_ip, getipVars, agentVars >>

EnvRemoveXml ==
    /\ pc = "idle"
    /\ xmlFile
    /\ xmlFile' = FALSE
    /\ prev' = NoPrev
    /\ UNCHANGED << pc, op, frame, outcome, result, reqs, faulted, entry,
                    defined, domState, hasMac, ctorVars, nvramFile, stop_at_begining, self_ip, getipVars, agentVars >>


(***************************************************************************)
(* get_ip(force_refresh)                                                   *)
(***************************************************************************)
GetIpCall ==
    /\ Call("get_ip", "get_ip_check")
    /\ \E force \in BOOLEAN : force_refresh' = force
    /\ vm_mac_address' = None /\ retry' = 0
    /\ samples' = 0 /\ sleeps' = 0 /\ hits' = 0 /\ matched' = {}
    /\ UNCHANGED << callRest, agentVars >>

GetIpCheck ==
    /\ pc = "get_ip_check"
    /\ IF get_ip_cached(force_refresh, self_ip)
          THEN result' = self_ip /\ ReturnOk
          ELSE pc' = "get_ip_get_domain" /\ UNCHANGED << outcome, result >>
    /\ UNCHANGED << hvRest, hvVars, frame, reqs, faulted, getipVars, agentVars >>

GetIpGetDomain ==
    /\ pc = "get_ip_get_domain"
    /\ \E f \in BOOLEAN :
          HvCall("lookupByUUIDString", lookupByUUIDString(defined, domState), f,
                 "get_ip_XMLDesc")
    /\ UNCHANGED << hvRest, frame, result, getipVars, agentVars >>

\* dom.XMLDesc(0), re.search(...).groups(), the `is None` test, and the
\* initialisation of the retry counter
GetIpXMLDesc ==
    /\ pc = "get_ip_XMLDesc"
    /\ \E f \in BOOLEAN :
          LET r == dom_XMLDesc(defined, domState)
              g == groups(re_search_mac(hasMac))
          IN  /\ reqs' = Append(reqs, "XMLDesc")
              /\ faulted' = (faulted \/ f)
              /\ IF f \/ r.err
                    THEN Raise("libvirtError") /\ UNCHANGED << vm_mac_address, retry >>
                    ELSE IF g.raised # None
                    THEN Raise(g.raised) /\ UNCHANGED << vm_mac_address, retry >>
                    ELSE IF g.value = None
                    THEN ReturnOk /\ UNCHANGED << vm_mac_address, retry >>
                    ELSE /\ vm_mac_address' = g.value
                         /\ retry' = ARP_INTERVAL
                         /\ pc' = IF ARP_INTERVAL > 0 THEN "get_ip_while" ELSE "get_ip_return"
                         /\ outcome' = outcome
    /\ UNCHANGED << hvRest, hvVars, frame, result, force_refresh,
                    samples, sleeps, hits, matched, agentVars >>

\* One iteration of `while retry > 0`: run `arp -a`, scan its lines, then
\* break, or count down and sleep one second.
GetIpSample ==
    /\ pc = "get_ip_while"
    /\ retry > 0
    /\ \E stdout \in ArpOutputs :
          LET new == for_line_in_stdout(stdout, vm_mac_address, self_ip)
              m   == MatchedIps(stdout, vm_mac_address)
          IN  /\ samples' = samples + 1
              /\ matched' = m
              /\ hits' = IF m # {} THEN hits + 1 ELSE hits
              /\ self_ip' = new
              /\ IF get_ip_break(new)
                    THEN pc' = "get_ip_return" /\ UNCHANGED << retry, sleeps >>
                    ELSE /\ retry' = retry - 1
                         /\ sleeps' = sleeps + 1
                         /\ pc' = IF retry - 1 > 0 THEN "get_ip_while" ELSE "get_ip_return"
    /\ UNCHANGED << op, frame, outcome, result, reqs, faulted, entry, prev,
                    defined, domState, xmlFile, hasMac, ctorVars, nvramFile, stop_at_begining, force_refresh, vm_mac_address,
                    agentVars >>

\* return self._ip
GetIpReturn ==
    /\ pc = "get_ip_return"
    /\ result' = self_ip
    /\ ReturnOk
    /\ UNCHANGED << hvRest, hvVars, frame, reqs, faulted, getipVars, agentVars >>

(***************************************************************************)
(* qemu_agent_file_write(path, content), qemu_agent_file_read(path)        *)
(***************************************************************************)
agentRest == << op, frame, entry, prev, defined, domState, xmlFile, hasMac, ctorVars, nvramFile, stop_at_begining, self_ip,
                path, content_arg, getipVars >>

\* One agent round-trip: the domain lookup and the command are recorded, the
\* guest moves on, and a libvirtError leaves the method.
AgentIO(cmd, r) ==
    /\ reqs' = Append(reqs, "lookupByUUIDString")
    /\ faulted' = (faulted \/ (r.sent /\ r.raised))
    /\ rt' = IF r.sent THEN Append(rt, [cmd |-> cmd, reply |-> r.reply]) ELSE rt
    /\ nextHandle' = r.next /\ openFds' = r.fds /\ guestFiles' = r.files

FileWriteCall ==
    /\ nextHandle < MaxHandle
    /\ Call("qemu_agent_file_write", "file_write_open")
    /\ \E p \in Paths, c \in Contents : path' = p /\ content_arg' = c
    /\ ret' = NoReply /\ content' = NoReply /\ filedescriptor' = None /\ rt' = << >>
    /\ UNCHANGED << callRest, getipVars, guestVars >>

\* guest-file-open, mode w+; assert; filedescriptor = j['return']
FileWriteOpen ==
    /\ pc = "file_write_open"
    /\ \E k \in ReplyKinds :
          LET cmd == OpenCmd(path, "w+")
              r == qemu_agent_command(cmd, k, defined, domState,
                                      nextHandle, openFds, guestFiles)
          IN  /\ AgentIO(cmd, r)
              /\ IF r.raised
                    THEN Raise("libvirtError") /\ UNCHANGED << ret, filedescriptor >>
                    ELSE /\ ret' = r.reply
                         /\ IF has_return(r.reply)
                               THEN /\ filedescriptor' = r.reply.value
                                    /\ pc' = "file_write_write" /\ outcome' = outcome
                               ELSE Raise("AssertionError") /\ UNCHANGED filedescriptor
    /\ UNCHANGED << agentRest, result, content >>

\* guest-file-write on filedescriptor; assert
FileWriteWrite ==
    /\ pc = "file_write_write"
    /\ \E k \in ReplyKinds :
          LET cmd == WriteCmd(filedescriptor, content_arg)
              r == qemu_agent_command(cmd, k, defined, domState,
                                      nextHandle, openFds, guestFiles)
          IN  /\ AgentIO(cmd, r)
              /\ IF r.raised
                    THEN Raise("libvirtError") /\ UNCHANGED << ret, result >>
                    ELSE /\ ret' = r.reply
                         /\ IF ~has_return(r.reply)
                               THEN Raise("AssertionError") /\ UNCHANGED result
                               ELSE IF file_write_after_write = "ret"
                               THEN result' = "True" /\ ReturnOk
                               ELSE /\ pc' = file_write_after_write
                                    /\ UNCHANGED << outcome, result >>
    /\ UNCHANGED << agentRest, content, filedescriptor >>

\* guest-file-close on filedescriptor; assert; return True
FileWriteClose ==
    /\ pc = "file_write_close"
    /\ \E k \in ReplyKinds :
          LET cmd == CloseCmd(filedescriptor)
              r == qemu_agent_command(cmd, k, defined, domState,
                                      nextHandle, openFds, guestFiles)
          IN  /\ AgentIO(cmd, r)
              /\ IF r.raised
                    THEN Raise("libvirtError") /\ UNCHANGED << ret, result >>
                    ELSE /\ ret' = r.reply
                         /\ IF has_return(r.reply)
                               THEN result' = "True" /\ ReturnOk
                               ELSE Raise("AssertionError") /\ UNCHANGED result
    /\ UNCHANGED << agentRest, content, filedescriptor >>

FileReadCall ==
    /\ nextHandle < MaxHandle
    /\ Call("qemu_agent_file_read", "file_read_open")
    /\ \E p \in Paths : path' = p
    /\ content_arg' = None
    /\ ret' = NoReply /\ content' = NoReply /\ filedescriptor' = None /\ rt' = << >>
    /\ UNCHANGED << callRest, getipVars, guestVars >>

\* guest-file-open, mode r; assert; filedescriptor = j['return']
FileReadOpen ==
    /\ pc = "file_read_open"
    /\ \E k \in ReplyKinds :
          LET cmd == OpenCmd(path, "r")
              r == qemu_agent_command(cmd, k, defined, domState,
                                      nextHandle, openFds, guestFiles)
          IN  /\ AgentIO(cmd, r)
              /\ IF r.raised
                    THEN Raise("libvirtError") /\ UNCHANGED << ret, filedescriptor >>
                    ELSE /\ ret' = r.reply
                         /\ IF has_return(r.reply)
                               THEN /\ filedescriptor' = r.reply.value
                                    /\ pc' = "file_read_read" /\ outcome' = outcome
                               ELSE Raise("AssertionError") /\ UNCHANGED filedescriptor
    /\ UNCHANGED << agentRest, result, content >>

\* content = guest-file-read on filedescriptor; the assert that follows
\* looks at `ret`, which still holds the reply of the open step
FileReadRead ==
    /\ pc = "file_read_read"
    /\ \E k \in ReplyKinds :
          LET cmd == ReadCmd(filedescriptor)
              r == qemu_agent_command(cmd, k, defined, domState,
                                      nextHandle, openFds, guestFiles)
          IN  /\ AgentIO(cmd, r)
              /\ IF r.raised
                    THEN Raise("libvirtError") /\ UNCHANGED content
                    ELSE /\ content' = r.reply
                         /\ IF has_return(ret)
                               THEN pc' = file_read_after_read /\ outcome' = outcome
                               ELSE Raise("AssertionError")
    /\ UNCHANGED << agentRest, result, ret, filedescriptor >>

\* guest-file-close on filedescriptor; assert; then json.loads(content) and
\* j['return']['buf-b64'], a KeyError when the read reply has no `return`
FileReadClose ==
    /\ pc = "file_read_close"
    /\ \E k \in ReplyKinds :
          LET cmd == CloseCmd(filedescriptor)
              r == qemu_agent_command(cmd, k, defined, domState,
                                      nextHandle, openFds, guestFiles)
          IN  /\ AgentIO(cmd, r)
              /\ IF r.raised
                    THEN Raise("libvirtError") /\ UNCHANGED << ret, result >>
                    ELSE /\ ret' = r.reply
                         /\ IF ~has_return(r.reply)
                               THEN Raise("AssertionError") /\ UNCHANGED result
                               ELSE IF content.kind # "return"
                               THEN Raise("KeyError") /\ UNCHANGED result
                               ELSE result' = content.value /\ ReturnOk
    /\ UNCHANGED << agentRest, content, filedescriptor >>

Next ==
    \/ CreateCall \/ CreateDump \/ CreateDefineXML \/ CreateDomainCreate
    \/ DestroyCall \/ DestroyGetDomain \/ DestroyDestroy \/ DestroyUndefineFlags
    \/ DestroyExists \/ DestroyRemove
    \/ StartCall \/ IsShutoffGetDomain \/ IsShutoffState \/ StartGetDomain \/ StartCreate
    \/ SuspendCall \/ SuspendGetDomain \/ ResumeCall \/ ResumeGetDomain
    \/ IsRunningGetDomain \/ IsRunningState \/ SuspendSuspend \/ ResumeResume
    \/ RebootCall \/ RebootGetDomain \/ RebootReboot
    \/ ShutdownCall \/ ShutdownGetDomain \/ ShutdownShutdown
    \/ StateCall \/ StateGetDomain \/ StateState
    \/ GetIpCall \/ GetIpCheck \/ GetIpGetDomain \/ GetIpXMLDesc \/ GetIpSample
    \/ GetIpReturn
    \/ EnvDomState \/ EnvRemoveXml
    \/ Return

Spec == Init /\ [][Next]_vars

\* The guest-agent relay: the VM is created and destroyed, its power state
\* changes, and files are written and read through the agent.
NextAgent ==
    \/ CreateCall \/ CreateDump \/ CreateDefineXML \/ CreateDomainCreate
    \/ DestroyCall \/ DestroyGetDomain \/ DestroyDestroy \/ DestroyUndefineFlags
    \/ DestroyExists \/ DestroyRemove
    \/ FileWriteCall \/ FileWriteOpen \/ FileWriteWrite \/ FileWriteClose
    \/ FileReadCall \/ FileReadOpen \/ FileReadRead \/ FileReadClose
    \/ EnvDomState
    \/ Return

SpecAgent == Init /\ [][NextAgent]_vars

(***************************************************************************)
(* Construction and teardown of the backend, for every guest specification *)
(* and host frequency, with the VM created and destroyed in between.       *)
(***************************************************************************)
InitCtor ==
    /\ pc = "new" /\ op = "none" /\ frame = "none"
    /\ outcome = "none" /\ result = None
    /\ reqs = << >> /\ faulted = FALSE
    /\ entry = NoEntry /\ prev = NoPrev
    /\ defined = FALSE /\ domState = VIR_DOMAIN_SHUTOFF
    /\ xmlFile = FALSE
    /\ hasMac = TRUE
    /\ self_ip = None
    /\ force_refresh = FALSE /\ vm_mac_address = None
    /\ retry = 0 /\ samples = 0 /\ sleeps = 0 /\ hits = 0 /\ matched = {}
    /\ path = None /\ content_arg = None
    /\ ret = NoReply /\ content = NoReply /\ filedescriptor = None /\ rt = << >>
    /\ nextHandle = 0 /\ openFds = {}
    /\ guestFiles = [p \in Paths |-> NoFile]
    /\ vminst \in Guests /\ base_freq \in BaseFreqs
    /\ xml = NoXml
    /\ virt_conn = "unset" /\ closeCalls = 0 /\ teardowns = 0
    /\ nvramFile = FALSE
    /\ stop_at_begining = TRUE

ctorRest ==
    << frame, result, reqs, faulted, entry, prev, defined, domState, xmlFile, hasMac,
       vminst, base_freq, stop_at_begining, getipVars, agentVars >>

\* VMMLibvirt(vminst)
CtorCall ==
    /\ pc = "new"
    /\ pc' = "init_connect_virt"
    /\ op' = "__init__" /\ outcome' = "running"
    /\ UNCHANGED << ctorRest, xml, virt_conn, closeCalls, teardowns, nvramFile, self_ip >>

\* self._virt_conn = self._connect_virt(): libvirt.open either answers with
\* a connection or raises libvirtError, which _connect_virt turns into an
\* AssertionError before the attribute is assigned.
CtorConnectVirt ==
    /\ pc = "init_connect_virt"
    /\ \E opened \in BOOLEAN :
          IF opened
              THEN virt_conn' = "open" /\ pc' = "init_prepare_domain_xml"
                   /\ outcome' = outcome
              ELSE virt_conn' = virt_conn /\ pc' = "aborted"
                   /\ outcome' = "AssertionError"
    /\ UNCHANGED << ctorRest, op, xml, closeCalls, teardowns, nvramFile, self_ip >>

\* self._xml = self._prepare_domain_xml(); self._ip = None
CtorPrepareDomainXml ==
    /\ pc = "init_prepare_domain_xml"
    /\ xml' = prepare_domain_xml(vminst, base_freq)
    /\ nvramFile' = TRUE
    /\ self_ip' = None
    /\ pc' = "idle" /\ op' = "none" /\ outcome' = "none"
    /\ UNCHANGED << ctorRest, virt_conn, closeCalls, teardowns >>

\* __del__, called on a constructed instance, on one whose constructor
\* raised, and again on one already torn down.
DelCall ==
    /\ pc \in { "idle", "aborted", "finalized" }
    /\ teardowns < MaxTeardown
    /\ teardowns' = teardowns + 1
    /\ pc' = "del_close_virt"
    /\ op' = "__del__" /\ outcome' = "running"
    /\ UNCHANGED << ctorRest, xml, virt_conn, closeCalls, nvramFile, self_ip >>

\* _close_virt: `if self._virt_conn is not None: self._virt_conn.close()`;
\* reading the attribute the constructor never assigned raises AttributeError.
DelCloseVirt ==
    /\ pc = "del_close_virt"
    /\ pc' = "finalized"
    /\ IF virt_conn = "unset"
          THEN outcome' = "AttributeError" /\ UNCHANGED << virt_conn, closeCalls >>
          ELSE /\ closeCalls' = closeCalls + 1
               /\ virt_conn' = conn_close(virt_conn).conn
               /\ outcome' = IF conn_close(virt_conn).err THEN "libvirtError" ELSE "ok"
    /\ UNCHANGED << ctorRest, op, xml, teardowns, nvramFile, self_ip >>

NextCtor ==
    \/ CtorCall \/ CtorConnectVirt \/ CtorPrepareDomainXml
    \/ DelCall \/ DelCloseVirt
    \/ CreateCall \/ CreateDump \/ CreateDefineXML \/ CreateDomainCreate
    \/ DestroyCall \/ DestroyGetDomain \/ DestroyDestroy \/ DestroyUndefineFlags
    \/ DestroyExists \/ DestroyRemove
    \/ EnvDomState
    \/ Return

SpecCtor == InitCtor /\ [][NextCtor]_vars

(***************************************************************************)
(* The hypervisor power state changing on its own while a method of the    *)
(* backend is between two of its libvirt calls: a guest-initiated shutdown,*)
(* a crash, another client pausing or starting the domain.  Nothing in the *)
(* backend holds the state still from is_running() / is_shutoff() to the   *)
(* request that follows.                                                   *)
(***************************************************************************)
EnvRace ==
    /\ pc \notin {"idle", "ret"}
    /\ Exists(defined, domState)
    /\ \E s \in DomStates \ {domState} : domState' = s
    /\ UNCHANGED << pc, op, frame, outcome, result, reqs, faulted, entry, prev,
                    defined, xmlFile, hasMac, ctorVars, nvramFile, stop_at_begining, self_ip, getipVars, agentVars >>

NextRace ==
    \/ CreateCall \/ CreateDump \/ CreateDefineXML \/ CreateDomainCreate
    \/ StartCall \/ IsShutoffGetDomain \/ IsShutoffState \/ StartGetDomain \/ StartCreate
    \/ SuspendCall \/ SuspendGetDomain \/ ResumeCall \/ ResumeGetDomain
    \/ IsRunningGetDomain \/ IsRunningState \/ SuspendSuspend \/ ResumeResume
    \/ EnvDomState \/ EnvRace
    \/ Return

SpecRace == Init /\ [][NextRace]_vars

(***************************************************************************)
(* Properties                                                              *)
(***************************************************************************)
Returned(name) == pc = "ret" /\ op = name

Issued(name) == \E i \in DOMAIN reqs : reqs[i] = name

\* C1: start() on a registered VM that is shut off issues a power-on request
\* (create) and leaves it running; start() on a paused VM issues an unpause
\* request (resume), no power-on request, and leaves it running.
C1_StartPowersOnOrResumes ==
    (Returned("start") /\ entry.registered /\ ~faulted) =>
        /\ entry.domState = VIR_DOMAIN_SHUTOFF =>
              /\ outcome = "ok"
              /\ Issued("create")
              /\ domState = VIR_DOMAIN_RUNNING
        /\ entry.domState = VIR_DOMAIN_PAUSED =>
              /\ outcome = "ok"
              /\ Issued("resume") /\ ~Issued("create")
              /\ domState = VIR_DOMAIN_RUNNING

C1_Witness ==
    /\ Returned("start") /\ entry.registered /\ ~faulted
    /\ entry.domState = VIR_DOMAIN_PAUSED
    /\ Issued("resume") /\ domState = VIR_DOMAIN_RUNNING

\* C2: two suspend() calls in a row on a running VM: the first leaves it
\* paused; the second issues no pause request, raises nothing and leaves it
\* paused.
C2_SuspendTwice ==
    (Returned("suspend") /\ ~faulted) =>
        /\ entry.domState = VIR_DOMAIN_RUNNING =>
              outcome = "ok" /\ domState = VIR_DOMAIN_PAUSED
        /\ (prev.op = "suspend" /\ prev.domState = VIR_DOMAIN_RUNNING) =>
              /\ entry.domState = VIR_DOMAIN_PAUSED
              /\ ~Issued("suspend")
              /\ outcome = "ok"
              /\ domState = VIR_DOMAIN_PAUSED

C2_Witness ==
    /\ Returned("suspend") /\ ~faulted /\ outcome = "ok"
    /\ prev.op = "suspend" /\ prev.domState = VIR_DOMAIN_RUNNING
    /\ domState = VIR_DOMAIN_PAUSED

\* C3: destroy() never raises: whether the VM is registered or gone, the XML
\* file present or missing, and whichever libvirt call or the file removal
\* fails, it returns normally; so does a destroy() right after a destroy().
C3_DestroyNeverRaises ==
    Returned("destroy") => outcome = "ok"

C3_Witness ==
    /\ Returned("destroy") /\ outcome = "ok"
    /\ prev.op = "destroy"
    /\ ~entry.registered /\ ~entry.xmlFile
    /\ Issued("lookupByUUIDString")

\* C4: after destroy() returns for a VM that was registered, the VM is
\* powered off and no longer registered, whatever its power state was.
C4_DestroyDeregisters ==
    (Returned("destroy") /\ entry.registered /\ ~faulted) =>
        /\ domState = VIR_DOMAIN_SHUTOFF
        /\ ~Exists(defined, domState)

\* The lifecycle enum as the specification lists it, with its value UNKNOWN.
VM_STATE_UNKNOWN == "VM_STATE_UNKNOWN"

LifecycleEnum ==
    { VM_STATE_RUNNING, VM_STATE_PAUSE, VM_STATE_SHUTDOWN_IN_PROGRESS,
      VM_STATE_SHUTDOWN, VM_STATE_UNKNOWN }

\* The lifecycle value the specification assigns to a libvirt power state.
SpecLifecycle(state) ==
    IF state = VIR_DOMAIN_RUNNING THEN VM_STATE_RUNNING
    ELSE IF state = VIR_DOMAIN_PAUSED THEN VM_STATE_PAUSE
    ELSE IF state = VIR_DOMAIN_SHUTDOWN THEN VM_STATE_SHUTDOWN_IN_PROGRESS
    ELSE IF state = VIR_DOMAIN_SHUTOFF THEN VM_STATE_SHUTDOWN
    ELSE VM_STATE_UNKNOWN

\* C5 as stated: state() maps running, paused, shutdown and shut off to their
\* lifecycle values and every other power state to the enum value UNKNOWN.
C5_StateMapsToEnum ==
    (Returned("state") /\ entry.registered /\ ~faulted) =>
        outcome = "ok" /\ result = SpecLifecycle(entry.domState)

\* C5 amended: state() maps running, paused, shutdown and shut off to their
\* lifecycle values; for every other power state it returns None, which is
\* no member of the lifecycle enum, without failing.
C5_StateMapsOrNone ==
    (Returned("state") /\ entry.registered /\ ~faulted) =>
        /\ outcome = "ok"
        /\ entry.domState = VIR_DOMAIN_RUNNING => result = VM_STATE_RUNNING
        /\ entry.domState = VIR_DOMAIN_PAUSED => result = VM_STATE_PAUSE
        /\ entry.domState = VIR_DOMAIN_SHUTDOWN => result = VM_STATE_SHUTDOWN_IN_PROGRESS
        /\ entry.domState = VIR_DOMAIN_SHUTOFF => result = VM_STATE_SHUTDOWN
        /\ entry.domState \notin { VIR_DOMAIN_RUNNING, VIR_DOMAIN_PAUSED,
                                    VIR_DOMAIN_SHUTDOWN, VIR_DOMAIN_SHUTOFF } =>
              result = None /\ result \notin LifecycleEnum

C5_Witness ==
    /\ Returned("state") /\ entry.registered /\ ~faulted
    /\ entry.domState = VIR_DOMAIN_CRASHED
    /\ outcome = "ok" /\ result = None

\* C6: a forced refresh on a backend that holds a cached IP returns and
\* stores an IP the neighbour table pairs with the VM MAC now, after
\* sampling up to the retry bound; when no sample pairs the MAC the result is
\* unresolved, not the old cached IP.
C6_ForcedRefreshResolvesAnew ==
    (Returned("get_ip") /\ force_refresh /\ entry.ip # None /\ outcome = "ok") =>
        /\ self_ip = result
        /\ matched # {} => result \in matched
        /\ matched = {} => (result = None /\ samples = ARP_INTERVAL)

\* C7: with an IP in the cache, get_ip() without force_refresh returns the
\* cached IP, makes no libvirt call and takes no sample, and leaves the cache
\* as it is; nothing but a get_ip() that resolves anew changes the cache.
C7_CacheHit ==
    (Returned("get_ip") /\ ~force_refresh /\ entry.ip # None) =>
        /\ outcome = "ok"
        /\ result = entry.ip
        /\ self_ip = entry.ip
        /\ reqs = << >>
        /\ samples = 0

C7_CacheKept ==
    [][ self_ip' # self_ip =>
          (op = "get_ip" /\ (force_refresh \/ entry.ip = None)) ]_vars

C7_CachedIpReused == []C7_CacheHit /\ C7_CacheKept

C7_Witness ==
    /\ Returned("get_ip") /\ ~force_refresh /\ entry.ip # None
    /\ prev.op = "suspend"
    /\ result = entry.ip

\* C8: when the live description holds no MAC address, get_ip() returns None
\* at once: no exception, no sample, no sleep.
C8_NoMacReturnsNone ==
    (Returned("get_ip") /\ ~hasMac /\ entry.registered /\ ~faulted) =>
        /\ outcome = "ok"
        /\ result = None
        /\ samples = 0 /\ sleeps = 0

\* C9: get_ip() with no cached IP samples the neighbour table at most
\* ARP_INTERVAL times, stops at the first sample with a line pairing the VM
\* MAC with an IPv4 address and returns such a line's address; with no such
\* sample it returns None after exactly ARP_INTERVAL samples.
C9_BoundedResolution ==
    (op = "get_ip" /\ entry.ip = None) =>
        /\ samples <= ARP_INTERVAL
        /\ hits <= 1
        /\ pc = "get_ip_while" => (retry > 0 /\ samples + retry = ARP_INTERVAL)
        /\ (pc = "ret" /\ outcome = "ok") =>
              /\ self_ip = result
              /\ result # None => (hits = 1 /\ result \in matched)
              /\ result = None => (hits = 0 /\ matched = {} /\ samples = ARP_INTERVAL)

C9_Witness ==
    /\ Returned("get_ip") /\ entry.ip = None /\ outcome = "ok"
    /\ result = None /\ samples = ARP_INTERVAL /\ sleeps = ARP_INTERVAL

\* every round-trip of the running method got a reply with a `return` member
AllReturned == \A i \in DOMAIN rt : rt[i].reply.kind = "return"

\* C10: when every agent reply has a `return` member, one file write makes
\* exactly the round-trips open, write, close and one file read exactly open,
\* read, close, in that order; the write / read and the close carry the handle
\* this call's open returned, which no earlier call was given.
C10_ThreeRoundTrips ==
    /\ (Returned("qemu_agent_file_write") /\ outcome # "libvirtError" /\ AllReturned) =>
          /\ outcome = "ok"
          /\ Len(rt) = 3
          /\ rt[1].cmd = OpenCmd(path, "w+")
          /\ rt[2].cmd = WriteCmd(rt[1].reply.value, content_arg)
          /\ rt[3].cmd = CloseCmd(rt[1].reply.value)
          /\ rt[1].reply.value >= entry.nextHandle
    /\ (Returned("qemu_agent_file_read") /\ outcome # "libvirtError" /\ AllReturned) =>
          /\ outcome = "ok"
          /\ Len(rt) = 3
          /\ rt[1].cmd = OpenCmd(path, "r")
          /\ rt[2].cmd = ReadCmd(rt[1].reply.value)
          /\ rt[3].cmd = CloseCmd(rt[1].reply.value)
          /\ rt[1].reply.value >= entry.nextHandle

C10_Witness ==
    /\ Returned("qemu_agent_file_read") /\ outcome = "ok" /\ AllReturned
    /\ prev.op = "qemu_agent_file_write"
    /\ entry.nextHandle > 0
    /\ Len(rt) = 3
    /\ rt[3].cmd.handle = rt[1].reply.value

FileOp == op \in { "qemu_agent_file_write", "qemu_agent_file_read" }

\* the first round-trip of the running method whose reply has no `return`
FirstWithoutReturn ==
    CHOOSE k \in DOMAIN rt :
        /\ rt[k].reply.kind = "error"
        /\ \A i \in 1..(k - 1) : rt[i].reply.kind # "error"

\* C11: in file write and file read each of the three steps checks its own
\* reply: when the reply of step k has no `return` member the method fails
\* with an assertion at step k and makes no later round-trip.
C11_EachStepAssertsOwnReply ==
    (pc = "ret" /\ FileOp /\ outcome # "libvirtError"
        /\ \E k \in DOMAIN rt : rt[k].reply.kind = "error") =>
        /\ outcome = "AssertionError"
        /\ Len(rt) = FirstWithoutReturn

\* C12: with a guest agent that stores what is written, a file write of
\* base64 content c to a path followed by a file read of that path returns c,
\* whatever the file held before.
C12_WriteThenReadRoundTrip ==
    (Returned("qemu_agent_file_read") /\ outcome = "ok"
        /\ prev.op = "qemu_agent_file_write" /\ prev.path = path) =>
        result = prev.content

\* C20: the handle obtained by the open step of a file write or file read is
\* closed before the call ends, when the call returns normally and when it
\* fails at the write / read step.
C20_HandleClosedBeforeReturn ==
    (pc = "ret" /\ FileOp /\ Len(rt) >= 2 /\ rt[1].reply.kind = "return"
        /\ (outcome = "ok" \/ Len(rt) = 2)) =>
        ~IsOpen(rt[1].reply.value, openFds)

\* C19 as stated: an unpause request (resume) goes only to a VM whose power
\* state is paused, from resume() and from start().
C19_UnpauseOnlyWhenPaused ==
    (pc = "ret" /\ op \in {"resume", "start"} /\ Issued("resume")) =>
        entry.domState = VIR_DOMAIN_PAUSED

\* C19 amended: an unpause request goes only to a VM whose power state is
\* not running; start() sends none to a VM that is shut off.
C19_UnpauseOnlyWhenNotRunning ==
    (pc = "ret" /\ op \in {"resume", "start"} /\ Issued("resume")) =>
        /\ entry.domState # VIR_DOMAIN_RUNNING
        /\ op = "start" => entry.domState # VIR_DOMAIN_SHUTOFF

C19_Witness ==
    /\ Returned("resume") /\ Issued("resume") /\ outcome = "ok"
    /\ entry.domState = VIR_DOMAIN_SHUTDOWN

\* C18: with the power state free to change between any two libvirt calls
\* of the backend, suspend() issues its pause request only while the state
\* is running at the moment of the request, and start() its power-on request
\* only while the state is shut off at that moment.
C18_RequestMatchesStateAtIssue ==
    [][ /\ (pc = "suspend_suspend" /\ pc' # pc) => domState = VIR_DOMAIN_RUNNING
        /\ (pc = "start_create" /\ pc' # pc) => domState = VIR_DOMAIN_SHUTOFF ]_vars

\* the constructor has returned normally
Constructed ==
    /\ virt_conn # "unset"
    /\ pc \notin { "new", "init_connect_virt", "init_prepare_domain_xml", "aborted" }

\* C13: a create(stop_at_begining=True) that returns normally leaves the VM
\* registered but not running.
C13_StopAtBeginningLeavesVmStopped ==
    (Returned("create") /\ outcome = "ok" /\ stop_at_begining) =>
        domState # VIR_DOMAIN_RUNNING

\* C14: over any sequence of teardowns the connection's close is requested
\* at most once, and no teardown raises.
C14_ConnectionReleasedOnce ==
    /\ closeCalls <= 1
    /\ (pc = "finalized" /\ op = "__del__") => outcome = "ok"

\* C15: the document built at construction has kernel and cmdline both unset
\* in bootloader mode and both set to the guest's values otherwise; never
\* exactly one of the two is set.
C15_BootFieldsFollowBootMode ==
    Constructed =>
        /\ vminst.boot = BOOT_TYPE_GRUB => xml.kernel = None /\ xml.cmdline = None
        /\ vminst.boot # BOOT_TYPE_GRUB =>
              /\ xml.kernel = vminst.kernel /\ xml.kernel # None
              /\ xml.cmdline = vminst.cmdline.text /\ xml.cmdline # None
        /\ (xml.kernel = None) <=> (xml.cmdline = None)

C15_Witness ==
    /\ Constructed /\ pc = "idle"
    /\ vminst.boot = BOOT_TYPE_GRUB /\ vminst.kernel \in Kernels
    /\ xml.kernel = None /\ xml.cmdline = None

HasPin(x) == \E i \in DOMAIN x.cpu_params : x.cpu_params[i] = "tsc-freq=1000000000"

\* C16: the CPU feature string holds tsc-freq=1000000000 exactly for a TD
\* guest on a host whose base frequency is strictly below 1,000,000.
C16_TscPinIffSlowTd ==
    Constructed =>
        (HasPin(xml) <=> (vminst.vmtype = VM_TYPE_TD /\ base_freq < 1000000))

C16_Witness ==
    /\ Constructed /\ pc = "idle"
    /\ vminst.vmtype = VM_TYPE_TD /\ base_freq = 1000000
    /\ ~HasPin(xml)

\* C17: after construct, create, destroy, with no call failing on the way,
\* neither the Virt XML file nor the NVRAM copy of the VM is left.
C17_NoFilesLeftBehind ==
    (Returned("destroy") /\ prev.op = "create" /\ ~faulted) =>
        ~xmlFile /\ ~nvramFile

====
